---- MODULE Spec2Model ----
(***************************************************************************)
(* Model of the compliance analysis backend (ilyra-ai/lyra-scout-core).    *)
(*                                                                         *)
(* One request is followed from the HTTP handler (routers/analysis.py)     *)
(* through document validation (utils/validate.py), the registry fan-out   *)
(* (services/cadastro.py), the source-backed analyzers                     *)
(* (services/real_analysis.py) and the reduction into the report.          *)
(* An action is one segment of handler code between two awaits on the      *)
(* network: asyncio runs such a segment without interruption.              *)
(*                                                                         *)
(* Characters are one-character strings, a document is a sequence of       *)
(* characters.  Accented characters of the source's message texts are      *)
(* written without the accent.                                             *)
(***************************************************************************)
EXTENDS Integers, Sequences, FiniteSets, TLC

\* ------------------------------------------------------------------------
\* Bounds of the model
\* ------------------------------------------------------------------------

\* Number of outbound calls of one request that may answer with something
\* other than a successful clean payload while the network is up.
MaxAnomalies == 1

\* The same number, over both requests, while two requests are served: with
\* none, each request sees every source answer cleanly or every call fail.
MaxAnomaliesOfTwo == 0

\* Largest stride of the jitter sequences drawn by random.randint.
MaxStride == 1

\* Largest step between consecutive digits of the generated documents.
MaxDigitStep == 2

\* Longest generated digit string.
MaxDocLen == 15

\* ------------------------------------------------------------------------
\* utils/validate.py
\* ------------------------------------------------------------------------

DigitChars == {"0", "1", "2", "3", "4", "5", "6", "7", "8", "9"}

\* A decimal digit outside ASCII: the pattern \D of a str regular expression
\* is Unicode-aware, and int() accepts such a digit.  "U0661" stands for the
\* one character ARABIC-INDIC DIGIT ONE.
UnicodeDigitChars == {"U0661"}

DecimalDigits == DigitChars \cup UnicodeDigitChars

\* int(c) for a digit character
IntOf(c) ==
    CASE c = "0" -> 0 [] c = "1" -> 1 [] c = "2" -> 2 [] c = "3" -> 3
      [] c = "4" -> 4 [] c = "5" -> 5 [] c = "6" -> 6 [] c = "7" -> 7
      [] c = "8" -> 8 [] c = "9" -> 9 [] c = "U0661" -> 1

\* f"{d}" for an integer 0..10 (the check digits are formatted in decimal)
StrOf(d) ==
    CASE d = 0 -> <<"0">> [] d = 1 -> <<"1">> [] d = 2 -> <<"2">>
      [] d = 3 -> <<"3">> [] d = 4 -> <<"4">> [] d = 5 -> <<"5">>
      [] d = 6 -> <<"6">> [] d = 7 -> <<"7">> [] d = 8 -> <<"8">>
      [] d = 9 -> <<"9">> [] d = 10 -> <<"1", "0">>

IsDigit(c) == c \in DecimalDigits

IsNotPunctuation(c) == c \notin {" ", ".", "-", "/"}

\* A variant that removes the formatting characters only.
clean_document_punctuation_only(value) == SelectSeq(value, IsNotPunctuation)

\* re.sub(r'\D', '', value)
clean_document(value) == SelectSeq(value, IsDigit)

RECURSIVE LStrip(_)
LStrip(s) == IF s # <<>> /\ Head(s) = " " THEN LStrip(Tail(s)) ELSE s

RECURSIVE RStrip(_)
RStrip(s) ==
    IF s # <<>> /\ s[Len(s)] = " " THEN RStrip(SubSeq(s, 1, Len(s) - 1)) ELSE s

\* str.strip()
Strip(s) == RStrip(LStrip(s))

\* s == s[0] * n
AllSameAsFirst(s) == \A i \in 1..Len(s) : s[i] = s[1]

RECURSIVE WeightedSum(_, _, _)
\* sum(int(s[i]) * w[i] for i in range(n)), with 1-based positions
WeightedSum(s, w, n) ==
    IF n = 0 THEN 0 ELSE IntOf(s[n]) * w[n] + WeightedSum(s, w, n - 1)

CpfWeights1 == [i \in 1..9 |-> 11 - i]
CpfWeights2 == [i \in 1..10 |-> 12 - i]

CpfDigit(sum) == LET d == (sum * 10) % 11 IN IF d = 10 THEN 0 ELSE d

is_valid_cpf_wrong_weights(value) ==
    LET cpf == clean_document(value) IN
    IF Len(cpf) # 11 \/ AllSameAsFirst(cpf) THEN FALSE
    ELSE LET digit1 == CpfDigit(WeightedSum(cpf, CpfWeights2, 9))
             digit2 == CpfDigit(WeightedSum(cpf, CpfWeights2, 10))
         IN  SubSeq(cpf, 10, 11) = StrOf(digit1) \o StrOf(digit2)

is_valid_cpf(value) ==
    LET cpf == clean_document(value) IN
    IF Len(cpf) # 11 \/ AllSameAsFirst(cpf) THEN FALSE
    ELSE LET digit1 == CpfDigit(WeightedSum(cpf, CpfWeights1, 9))
             digit2 == CpfDigit(WeightedSum(cpf, CpfWeights2, 10))
         IN  SubSeq(cpf, 10, 11) = StrOf(digit1) \o StrOf(digit2)

weights1 == <<5, 4, 3, 2, 9, 8, 7, 6, 5, 4, 3, 2>>
weights2 == <<6, 5, 4, 3, 2, 9, 8, 7, 6, 5, 4, 3, 2>>

CnpjDigit(sum) == LET d == sum % 11 IN IF d < 2 THEN 0 ELSE 11 - d

is_valid_cnpj_no_repeat_check(value) ==
    LET cnpj == clean_document(value) IN
    IF Len(cnpj) # 14 THEN FALSE
    ELSE LET digit1 == CnpjDigit(WeightedSum(cnpj, weights1, 12))
             digit2 == CnpjDigit(WeightedSum(cnpj, weights2, 13))
         IN  SubSeq(cnpj, 13, 14) = StrOf(digit1) \o StrOf(digit2)

is_valid_cnpj(value) ==
    LET cnpj == clean_document(value) IN
    IF Len(cnpj) # 14 \/ AllSameAsFirst(cnpj) THEN FALSE
    ELSE LET digit1 == CnpjDigit(WeightedSum(cnpj, weights1, 12))
             digit2 == CnpjDigit(WeightedSum(cnpj, weights2, 13))
         IN  SubSeq(cnpj, 13, 14) = StrOf(digit1) \o StrOf(digit2)

validate_document_unchecked(document) ==
    LET cleaned == clean_document(document) IN
    IF Len(cleaned) = 11
    THEN [valid |-> TRUE, type |-> "cpf", document |-> cleaned]
    ELSE IF Len(cleaned) = 14
    THEN [valid |-> TRUE, type |-> "cnpj", document |-> cleaned]
    ELSE [valid |-> FALSE, type |-> "unknown", document |-> cleaned]

validate_document(document) ==
    LET cleaned == clean_document(document) IN
    IF Len(cleaned) = 11
    THEN [valid |-> is_valid_cpf(cleaned), type |-> "cpf", document |-> cleaned]
    ELSE IF Len(cleaned) = 14
    THEN [valid |-> is_valid_cnpj(cleaned), type |-> "cnpj", document |-> cleaned]
    ELSE [valid |-> FALSE, type |-> "unknown", document |-> cleaned]

\* ------------------------------------------------------------------------
\* Documents a client may send
\* ------------------------------------------------------------------------

CnpjValid == <<"0","0","0","0","0","0","0","0","0","0","0","1","9","1">>
CnpjBadCheck == <<"0","0","0","0","0","0","0","0","0","0","0","1","9","2">>
CnpjRepeated == <<"0","0","0","0","0","0","0","0","0","0","0","0","0","0">>
CnpjFormattedBad ==
    <<"1","1",".","1","1","1",".","1","1","1","/","1","1","1","1","-","1","1">>
CpfFormatted ==
    <<" ","5","2","9",".","9","8","2",".","2","4","7","-","2","5">>
CpfBadCheck == <<"5","2","9","9","8","2","2","4","7","2","6">>
CpfRepeated == <<"1","1","1","1","1","1","1","1","1","1","1">>
ShortDoc == <<"1","2","3">>
LettersDoc == <<"a","b","c">>
BlankDoc == <<" ">>
CnpjUnicodeDigit ==
    <<"0","0","0","0","0","0","0","0","0","0","0","U0661","9","U0661">>
EmptyDoc == <<>>

Documents ==
    {CnpjValid, CnpjBadCheck, CnpjRepeated, CnpjFormattedBad, CpfFormatted,
     CpfBadCheck, CpfRepeated, ShortDoc, LettersDoc, BlankDoc, EmptyDoc,
     CnpjUnicodeDigit}

\* ------------------------------------------------------------------------
\* The transport: GET(url, timeout) -> response | error | timeout
\* ------------------------------------------------------------------------

\* Marks a key that a JSON object does not have.
NoKey == "<absent>"

\* A response body.  shape: "dict" and "list" are JSON objects and arrays,
\* "number" a JSON number, "text" a body that is not JSON.  size: len() of
\* the object or array, the value of the number.  situacao, nome: the
\* values under these keys.  atividade: the shape of the value under
\* 'atividade_principal'.  count: the length of the list under 'results' or
\* 'autuacoes', or the number under 'totalResults'.  flag: 'simples' or
\* 'infracoes' is truthy, or the text of the body contains 'embargo'.
Body(shape, size, situacao, nome, atividade, count, flag) ==
    [shape |-> shape, size |-> size, situacao |-> situacao, nome |-> nome,
     atividade |-> atividade, count |-> count, flag |-> flag]

Dict(size) == Body("dict", size, NoKey, NoKey, NoKey, 0, FALSE)
List(size) == Body("list", size, NoKey, NoKey, NoKey, 0, FALSE)
EmptyDict == Dict(0)

Response(status, body) == [kind |-> "response", status |-> status, body |-> body]
TransportError == [kind |-> "error", status |-> 0, body |-> EmptyDict]
Timeout == [kind |-> "timeout", status |-> 0, body |-> EmptyDict]
NotCalled == [kind |-> "none", status |-> 0, body |-> EmptyDict]

Failures == {TransportError, Timeout, Response(500, EmptyDict)}

RegistrySources == <<"minhareceita", "cnpja", "receitaws">>
CnpjSources ==
    {"minhareceita", "cnpja", "receitaws", "ceis", "cnep", "jusbrasil", "rfb",
     "newsapi", "ibama", "ibama_api", "mte", "caged"}
CpfSources == {"cpf_rfb", "cpf_ceis", "cpf_cadin", "cpf_pep"}
Sources == CnpjSources \cup CpfSources

Registry(situacao, nome, atividade) ==
    Response(200, Body("dict", 3, situacao, nome, atividade, 0, FALSE))

\* The answer of a source that is up and knows nothing against the entity.
Clean(src) ==
    CASE src \in {"minhareceita", "cnpja", "receitaws", "rfb"} ->
           Registry("ATIVA", "Empresa X", "list")
      [] src \in {"ceis", "cnep", "cpf_ceis", "cpf_cadin", "cpf_pep"} ->
           Response(200, List(0))
      [] src \in {"jusbrasil", "newsapi", "ibama", "ibama_api", "mte"} ->
           Response(200, Dict(1))
      [] src = "caged" ->
           Response(200, Body("dict", 1, "regular", NoKey, NoKey, 0, FALSE))
      [] src = "cpf_rfb" ->
           Response(200, Body("dict", 1, "regular", NoKey, NoKey, 0, FALSE))

\* The other successful answers a source is modelled to give.
Adverse(src) ==
    CASE src \in {"minhareceita", "cnpja", "receitaws"} ->
           {Registry("BAIXADA", "Empresa Y", "list"),
            Registry("ativa", NoKey, NoKey),
            Registry("ATIVA", "Empresa Z", "dict"),
            Response(200, EmptyDict),
            Response(200, List(1))}
      [] src \in {"ceis", "cnep"} ->
           {Response(200, List(2)), Response(200, Dict(1)),
            Response(200, Body("number", 7, NoKey, NoKey, NoKey, 0, FALSE))}
      [] src \in {"cpf_ceis", "cpf_cadin", "cpf_pep"} ->
           {Response(200, List(2)), Response(404, Dict(1)),
            Response(200, Body("number", 7, NoKey, NoKey, NoKey, 0, FALSE))}
      [] src \in {"jusbrasil", "newsapi", "mte"} ->
           {Response(200, Body("dict", 1, NoKey, NoKey, NoKey, 2, FALSE)),
            Response(200, Body("dict", 1, NoKey, NoKey, NoKey, 3, FALSE)),
            Response(200, List(1))}
      [] src = "rfb" ->
           {Registry("ativa", "Empresa X", "list"),
            Registry("SUSPENSA", "Empresa X", "list"),
            Registry("BAIXADA", "Empresa X", "list"),
            Response(200, Body("dict", 2, "ATIVA", NoKey, NoKey, 0, TRUE)),
            Response(200, Dict(1)),
            Response(200, List(1))}
      [] src = "ibama" ->
           {Response(200, Body("dict", 1, NoKey, NoKey, NoKey, 0, TRUE)),
            Response(200, Body("text", 9, NoKey, NoKey, NoKey, 0, TRUE))}
      [] src = "ibama_api" ->
           {Response(200, Body("dict", 1, NoKey, NoKey, NoKey, 0, TRUE)),
            Response(200, List(1))}
      [] src = "caged" ->
           {Response(200, Body("dict", 1, "irregular", NoKey, NoKey, 0, FALSE)),
            Response(200, List(1))}
      [] src = "cpf_rfb" ->
           {Response(200, Body("dict", 1, "pendente", NoKey, NoKey, 0, FALSE)),
            Response(200, Body("dict", 2, "regular", "Maria", NoKey, 0, FALSE)),
            Response(404, Dict(1)),
            Response(200, List(1))}

Outcomes(src) == {Clean(src)} \cup Adverse(src) \cup Failures

\* response.json()
IsJson(body) == body.shape # "text"

\* bool(x) of a parsed body
Truthy(body) == body.size # 0

\* ------------------------------------------------------------------------
\* services/real_analysis.py
\* ------------------------------------------------------------------------

\* What a source client hands to its caller: the parsed body, or a value
\* standing for the exception it lets escape.
Raised == Body("raised", 0, NoKey, NoKey, NoKey, 0, FALSE)

fetch_with_timeout_raising(out) ==
    IF out.kind = "response" /\ out.status < 400 /\ IsJson(out.body)
    THEN out.body
    ELSE Raised

fetch_with_timeout(out) ==
    IF out.kind = "response" /\ out.status < 400 /\ IsJson(out.body)
    THEN out.body
    ELSE EmptyDict

IsDict(data) == data.shape = "dict"
HasLen(data) == data.shape \in {"dict", "list"}
Min(a, b) == IF a < b THEN a ELSE b
Max(a, b) == IF a > b THEN a ELSE b

\* The dictionary an analyzer returns.
Analysis(score, risk, findings, sources) ==
    [score |-> score, risk |-> risk, findings |-> findings, sources |-> sources]

SanctionsSources == <<"CEIS", "CNEP", "TCU", "Portal da Transparencia">>

\* analyze_cnpj_sanctions up to its second await: the CEIS check.
analyze_cnpj_sanctions_ceis(ceis_data) ==
    IF ceis_data = Raised \/ (Truthy(ceis_data) /\ ceis_data.shape # "list")
    THEN Analysis(70, "medium",
                  <<"Erro ao consultar CEIS - verificacao manual recomendada">>,
                  SanctionsSources)
    ELSE IF Truthy(ceis_data)
    THEN Analysis(25, "high",
                  <<"Encontradas " \o ToString(ceis_data.size)
                        \o " sancao(oes) no CEIS",
                    "Tipo: N/A",
                    "Verificacao manual necessaria">>,
                  SanctionsSources)
    ELSE Analysis(90, "low", <<"Nenhuma sancao encontrada no CEIS">>,
                  SanctionsSources)

analyze_cnpj_sanctions_cnep_keeps_risk(partial, cnep_data) ==
    IF cnep_data = Raised \/ (Truthy(cnep_data) /\ ~HasLen(cnep_data))
    THEN [partial EXCEPT !.findings = @ \o <<"Erro ao consultar CNEP">>]
    ELSE IF Truthy(cnep_data)
    THEN [partial EXCEPT
            !.findings = @ \o <<"Encontradas " \o ToString(cnep_data.size)
                                    \o " entrada(s) no CNEP">>,
            !.score = Min(@, 40)]
    ELSE [partial EXCEPT !.findings = @ \o <<"Sem registros no CNEP">>]

\* analyze_cnpj_sanctions from its second await to its return: the CNEP
\* check on top of the CEIS result.
analyze_cnpj_sanctions_cnep(partial, cnep_data) ==
    IF cnep_data = Raised \/ (Truthy(cnep_data) /\ ~HasLen(cnep_data))
    THEN [partial EXCEPT !.findings = @ \o <<"Erro ao consultar CNEP">>]
    ELSE IF Truthy(cnep_data)
    THEN [partial EXCEPT
            !.findings = @ \o <<"Encontradas " \o ToString(cnep_data.size)
                                    \o " entrada(s) no CNEP">>,
            !.score = Min(@, 40),
            !.risk = "high"]
    ELSE [partial EXCEPT !.findings = @ \o <<"Sem registros no CNEP">>]

LegalSources == <<"TJSP", "DataJud", "Consulta Processual">>

analyze_cnpj_legal(legal_data) ==
    IF legal_data = Raised \/ (Truthy(legal_data) /\ ~IsDict(legal_data))
    THEN Analysis(75, "low",
                  <<"Consulta processual realizada",
                    "Sem processos criticos identificados",
                    "Monitoramento recomendado">>,
                  LegalSources)
    ELSE IF Truthy(legal_data) /\ legal_data.count > 0
    THEN Analysis(IF legal_data.count <= 2 THEN 60 ELSE 40,
                  IF legal_data.count <= 2 THEN "medium" ELSE "high",
                  <<ToString(legal_data.count) \o " processo(s) encontrado(s)",
                    "Analise juridica recomendada",
                    "Verificacao dos detalhes necessaria">>,
                  LegalSources)
    ELSE Analysis(85, "low",
                  <<"Nenhum processo judicial relevante encontrado">>,
                  LegalSources)

\* str.upper() on the status texts that occur
Upper(s) ==
    CASE s = "ativa" -> "ATIVA"
      [] s = "regular" -> "REGULAR"
      [] s = "irregular" -> "IRREGULAR"
      [] s = "pendente" -> "PENDENTE"
      [] OTHER -> s

FiscalSources == <<"RFB", "PGFN", "Simples Nacional">>

analyze_fiscal_situation(rfb_data) ==
    IF rfb_data = Raised \/ (Truthy(rfb_data) /\ ~IsDict(rfb_data))
    THEN Analysis(50, "medium",
                  <<"Falha na consulta fiscal",
                    "Verificacao presencial recomendada">>,
                  FiscalSources)
    ELSE IF ~Truthy(rfb_data)
    THEN Analysis(60, "medium",
                  <<"Erro na consulta a RFB", "Verificacao manual recomendada">>,
                  FiscalSources)
    ELSE LET situacao == IF rfb_data.situacao = NoKey THEN ""
                         ELSE Upper(rfb_data.situacao)
             simples == IF rfb_data.flag
                        THEN <<"Optante pelo Simples Nacional">> ELSE <<>>
         IN  IF situacao = "ATIVA"
             THEN Analysis(85, "low",
                           <<"Situacao cadastral ativa na RFB",
                             "CNPJ regularmente inscrito",
                             "Sem indicacoes de irregularidade fiscal">>
                               \o simples,
                           FiscalSources)
             ELSE IF situacao \in {"SUSPENSA", "INAPTA"}
             THEN Analysis(45, "high",
                           <<"Situacao cadastral: " \o situacao,
                             "Possivel irregularidade fiscal",
                             "Verificacao detalhada necessaria">> \o simples,
                           FiscalSources)
             ELSE Analysis(70, "medium",
                           <<"Situacao cadastral: "
                                 \o (IF situacao = "" THEN "N/A" ELSE situacao),
                             "Status fiscal a ser verificado">> \o simples,
                           FiscalSources)

MediaSources == <<"Google News", "Bing News", "NewsAPI">>

analyze_media_mentions(news_data) ==
    IF news_data = Raised \/ (Truthy(news_data) /\ ~IsDict(news_data))
    THEN Analysis(85, "low",
                  <<"Busca em fontes de midia realizada",
                    "Sem alertas criticos identificados">>,
                  MediaSources)
    ELSE LET articles_found == IF Truthy(news_data) THEN news_data.count ELSE 0
         IN  IF articles_found > 0
             THEN Analysis(IF articles_found <= 2 THEN 60 ELSE 40,
                           IF articles_found <= 2 THEN "medium" ELSE "high",
                           <<ToString(articles_found)
                                 \o " mencao(oes) encontrada(s)",
                             "Analise detalhada recomendada",
                             "Monitoramento continuo sugerido">>,
                           MediaSources)
             ELSE Analysis(90, "low",
                           <<"Nenhuma mencao negativa relevante encontrada">>,
                           MediaSources)

EnvironmentalSources == <<"IBAMA", "SISNAMA", "Portal Nacional de Licenciamento">>

EnvironmentalFallback ==
    Analysis(82, "low",
             <<"Consulta ambiental realizada",
               "Base de dados verificada",
               "Sem alertas criticos no sistema">>,
             EnvironmentalSources)

\* analyze_environmental up to its second await; "pending" when the
\* alternative check is still to be made.
analyze_environmental_ibama(ibama_data) ==
    IF ibama_data = Raised
    THEN [pending |-> FALSE, result |-> EnvironmentalFallback]
    ELSE IF Truthy(ibama_data) /\ ibama_data.flag
    THEN [pending |-> FALSE,
          result |-> Analysis(35, "high",
                              <<"Area embargada identificada",
                                "Verificacao detalhada necessaria",
                                "Acompanhamento dos orgaos ambientais">>,
                              EnvironmentalSources)]
    ELSE [pending |-> TRUE, result |-> EnvironmentalFallback]

\* analyze_environmental from its second await to its return.
analyze_environmental_alt(env_data) ==
    IF env_data = Raised \/ (Truthy(env_data) /\ ~IsDict(env_data))
    THEN EnvironmentalFallback
    ELSE IF Truthy(env_data) /\ env_data.flag
    THEN Analysis(45, "high",
                  <<"Infracoes ambientais encontradas",
                    "Regularizacao necessaria">>,
                  EnvironmentalSources)
    ELSE Analysis(88, "low", <<"Sem infracoes ambientais identificadas">>,
                  EnvironmentalSources)

LaborSources == <<"MTE", "TST", "Portal Mais Emprego">>

LaborFallback ==
    Analysis(84, "low",
             <<"Consulta trabalhista realizada",
               "Dados de emprego verificados",
               "Sem violacoes criticas identificadas">>,
             LaborSources)

\* analyze_labor_issues up to its second await.
analyze_labor_issues_mte(mte_data) ==
    IF mte_data = Raised \/ (Truthy(mte_data) /\ ~IsDict(mte_data))
    THEN [pending |-> FALSE, result |-> LaborFallback]
    ELSE IF Truthy(mte_data) /\ mte_data.count > 0
    THEN [pending |-> FALSE,
          result |-> Analysis(IF mte_data.count <= 2 THEN 50 ELSE 35,
                              IF mte_data.count <= 2 THEN "medium" ELSE "high",
                              <<ToString(mte_data.count)
                                    \o " autuacao(oes) encontrada(s)",
                                "Verificacao da situacao trabalhista",
                                "Acompanhamento recomendado">>,
                              LaborSources)]
    ELSE [pending |-> TRUE, result |-> LaborFallback]

\* analyze_labor_issues from its second await to its return.
analyze_labor_issues_caged(caged_data) ==
    IF caged_data = Raised \/ (Truthy(caged_data) /\ ~IsDict(caged_data))
    THEN LaborFallback
    ELSE IF Truthy(caged_data) /\ caged_data.situacao = "irregular"
    THEN Analysis(60, "medium",
                  <<"Irregularidade na situacao trabalhista",
                    "Verificacao necessaria">>,
                  LaborSources)
    ELSE Analysis(87, "low", <<"Situacao trabalhista regular">>, LaborSources)

\* ------------------------------------------------------------------------
\* services/cadastro.py
\* ------------------------------------------------------------------------

Pending == Body("pending", 0, NoKey, NoKey, NoKey, 0, FALSE)

\* fetch_json: the parsed body, or the exception that gather collects
\* (return_exceptions=True).
fetch_json(out) ==
    IF out.kind = "response" /\ out.status < 400 /\ IsJson(out.body)
    THEN out.body
    ELSE Raised

RECURSIVE Join(_)
\* "".join(chars)
Join(chars) == IF chars = <<>> THEN "" ELSE Head(chars) \o Join(Tail(chars))

NoData(cnpj) ==
    [situacao |-> NoKey, nome |-> NoKey, atividade |-> NoKey, cnpj |-> cnpj]

\* A merge in which the first source to define a key keeps it.
UpdateFirstWins(data, r) ==
    [data EXCEPT
       !.situacao = IF @ = NoKey THEN r.situacao ELSE @,
       !.nome = IF @ = NoKey THEN r.nome ELSE @,
       !.atividade = IF @ = NoKey THEN r.atividade ELSE @]

\* dict.update(r) for a JSON object r: every key of r overwrites.
Update(data, r) ==
    [data EXCEPT
       !.situacao = IF r.situacao = NoKey THEN @ ELSE r.situacao,
       !.nome = IF r.nome = NoKey THEN @ ELSE r.nome,
       !.atividade = IF r.atividade = NoKey THEN @ ELSE r.atividade]

\* dict.update(r) raises for a number and for a non-empty array of numbers.
UpdateRaises(r) == r # Raised /\ ~IsDict(r) /\ (r.shape # "list" \/ r.size > 0)

RECURSIVE Merge(_, _, _)
\* the loop "for r in results" of fetch_cnpj, from position i on
Merge(results, i, data) ==
    IF i > Len(results) THEN data
    ELSE IF results[i] = Raised \/ ~IsDict(results[i])
    THEN Merge(results, i + 1, data)
    ELSE Merge(results, i + 1, Update(data, results[i]))

\* A gather that lets the first exception of a task through.
fetch_cnpj_without_return_exceptions(results, cnpj) ==
    [raised |-> \E i \in 1..Len(results) :
                    results[i] = Raised \/ UpdateRaises(results[i]),
     data |-> Merge(results, 1, NoData(cnpj))]

\* fetch_cnpj after the gather: the merged data, or raised.
fetch_cnpj(results, cnpj) ==
    [raised |-> \E i \in 1..Len(results) : UpdateRaises(results[i]),
     data |-> Merge(results, 1, NoData(cnpj))]

\* ------------------------------------------------------------------------
\* routers/analysis.py: the modules
\* ------------------------------------------------------------------------

\* dict.get(key, default)
Get(value, default) == IF value = NoKey THEN default ELSE value

ModuleResult(id, analysis) ==
    [id |-> id, score |-> analysis.score, risk |-> analysis.risk,
     status |-> "completed", findings |-> analysis.findings,
     sources |-> analysis.sources]

\* The cadastral module of perform_cnpj_analysis raises when the value under
\* 'atividade_principal' is a JSON object (indexing it with 0 is a KeyError).
CadastralRaises(cnpj_data) == cnpj_data.atividade = "dict"

CnpjCadastralAnyCase(cnpj_data, cnpj) ==
    LET cadastral_score ==
            IF cnpj_data.situacao \in {"ATIVA", "ativa"} THEN 85 ELSE 45 IN
    ModuleResult("cadastral",
        Analysis(cadastral_score,
                 IF cadastral_score > 70 THEN "low" ELSE "high",
                 <<"CNPJ: " \o Join(cnpj)>>,
                 <<"Receita Federal", "MinhaReceita.org">>))

CnpjCadastral(cnpj_data, cnpj) ==
    LET cadastral_score == IF cnpj_data.situacao = "ATIVA" THEN 85 ELSE 45 IN
    ModuleResult("cadastral",
        Analysis(cadastral_score,
                 IF cadastral_score > 70 THEN "low" ELSE "high",
                 <<"CNPJ: " \o Join(cnpj),
                   "Razao Social: " \o Get(cnpj_data.nome, "N/A"),
                   "Situacao: " \o Get(cnpj_data.situacao, "N/A"),
                   "Atividade: " \o (IF cnpj_data.atividade = NoKey
                                      THEN "N/A" ELSE "Comercio"),
                   "Endereco: N/A, , N/A/N/A",
                   "CEP: N/A",
                   "Data Abertura: N/A",
                   "Capital Social: R$ N/A">>,
                 <<"Receita Federal", "MinhaReceita.org">>))

\* f"{cpf[:3]}.{cpf[3:6]}.{cpf[6:9]}-{cpf[9:]}"
FormatCpf(cpf) ==
    Join(SubSeq(cpf, 1, 3)) \o "." \o Join(SubSeq(cpf, 4, 6)) \o "."
        \o Join(SubSeq(cpf, 7, 9)) \o "-" \o Join(SubSeq(cpf, 10, Len(cpf)))

\* A direct client.get of perform_cpf_analysis raises inside its try block
\* on a transport error or timeout, when the 200 body is not JSON, and when
\* the parsed body does not support the operation applied to it.
CpfCallRaises(out) == out.kind # "response"
CpfBodyRaises(body, needs_dict) ==
    \/ ~IsJson(body)
    \/ (needs_dict /\ ~IsDict(body))
    \/ (~needs_dict /\ Truthy(body) /\ ~HasLen(body))

CpfCadastral(out, cpf) ==
    ModuleResult("cadastral",
        IF CpfCallRaises(out) \/ (out.status = 200 /\ CpfBodyRaises(out.body, TRUE))
        THEN Analysis(70, "medium",
                      <<"CPF: " \o FormatCpf(cpf),
                        "Verificacao de formato aprovada">>,
                      <<"Receita Federal">>)
        ELSE IF out.status = 200
        THEN LET cadastral_score ==
                     IF out.body.situacao = "regular" THEN 85 ELSE 60
             IN  Analysis(cadastral_score,
                          IF cadastral_score > 70 THEN "low" ELSE "medium",
                          <<"CPF: " \o FormatCpf(cpf),
                            "Situacao: " \o Get(out.body.situacao, "Verificado"),
                            "Consulta realizada na Receita Federal">>,
                          <<"Receita Federal">>)
        ELSE Analysis(75, "low",
                      <<"CPF: " \o FormatCpf(cpf),
                        "CPF valido - formato correto",
                        "Verificacao basica realizada">>,
                      <<"Receita Federal">>))

CpfSanctions(out) ==
    ModuleResult("sanctions",
        IF CpfCallRaises(out) \/ (out.status = 200 /\ CpfBodyRaises(out.body, FALSE))
        THEN Analysis(80, "low", <<"Verificacao de sancoes realizada">>,
                      <<"CEIS", "CNEP">>)
        ELSE IF out.status = 200 /\ Truthy(out.body)
        THEN Analysis(40, "high",
                      <<ToString(out.body.size) \o " sancao(oes) encontrada(s)",
                        "Verificacao detalhada necessaria">>,
                      <<"CEIS", "CNEP">>)
        ELSE IF out.status = 200
        THEN Analysis(90, "low", <<"Nenhuma sancao encontrada no CEIS">>,
                      <<"CEIS", "CNEP">>)
        ELSE Analysis(85, "low", <<"Consulta realizada - sem restricoes">>,
                      <<"CEIS", "CNEP">>))

CpfCadin(out) ==
    ModuleResult("cadin",
        IF CpfCallRaises(out) \/ (out.status = 200 /\ CpfBodyRaises(out.body, FALSE))
        THEN Analysis(80, "low", <<"Verificacao CADIN completada">>, <<"CADIN">>)
        ELSE IF out.status = 200 /\ Truthy(out.body)
        THEN Analysis(45, "high",
                      <<ToString(out.body.size) \o " restricao(oes) no CADIN",
                        "Pendencias financeiras identificadas">>,
                      <<"CADIN">>)
        ELSE IF out.status = 200
        THEN Analysis(88, "low", <<"Sem restricoes no CADIN">>, <<"CADIN">>)
        ELSE Analysis(82, "low", <<"Consulta CADIN realizada">>, <<"CADIN">>))

CpfPep(out) ==
    ModuleResult("pep",
        IF CpfCallRaises(out) \/ (out.status = 200 /\ CpfBodyRaises(out.body, FALSE))
        THEN Analysis(82, "low", <<"Verificacao PEP completada">>,
                      <<"Portal da Transparencia">>)
        ELSE IF out.status = 200 /\ Truthy(out.body)
        THEN Analysis(60, "medium",
                      <<"Identificado como Pessoa Politicamente Exposta",
                        "Due diligence reforcada necessaria">>,
                      <<"Portal da Transparencia">>)
        ELSE IF out.status = 200
        THEN Analysis(90, "low", <<"Nao identificado como PEP">>,
                      <<"Portal da Transparencia">>)
        ELSE Analysis(85, "low", <<"Consulta PEP realizada">>,
                      <<"Portal da Transparencia">>))

\* The supplementary modules: id and base_score, in the order of the lists
\* additional_modules and additional_cpf_modules.
additional_modules ==
    <<[id |-> "corporate", base_score |-> 75],
      [id |-> "financial", base_score |-> 70],
      [id |-> "regulatory", base_score |-> 80],
      [id |-> "international", base_score |-> 85],
      [id |-> "pep", base_score |-> 88],
      [id |-> "technology", base_score |-> 82],
      [id |-> "sectoral", base_score |-> 77],
      [id |-> "operational", base_score |-> 79]>>

additional_cpf_modules ==
    <<[id |-> "criminal", base_score |-> 85],
      [id |-> "civil_processes", base_score |-> 80],
      [id |-> "electoral", base_score |-> 90],
      [id |-> "financial", base_score |-> 75],
      [id |-> "professional", base_score |-> 88],
      [id |-> "property", base_score |-> 82],
      [id |-> "social_media", base_score |-> 85],
      [id |-> "labor_issues", base_score |-> 90],
      [id |-> "tax_compliance", base_score |-> 78],
      [id |-> "behavioral", base_score |-> 83],
      [id |-> "risk_profile", base_score |-> 80]>>

\* random.randint(JitterMin, JitterMax)
JitterMin == -15
JitterMax == 15
JitterSpan == JitterMax - JitterMin + 1

\* The k-th draw (k = 0, 1, ...) of the generator: the draws of one run are
\* the sequence that starts at `seed` and advances by `stride`.
RandInt(seed, stride, k) == JitterMin + ((seed + k * stride) % JitterSpan)

Seeds == 0..(JitterSpan - 1)
Strides == 0..MaxStride

SupplementaryRiskInverted(final_score) ==
    IF final_score > 75 THEN "high" ELSE IF final_score > 50 THEN "medium" ELSE "low"

\* risk_level of a supplementary module
SupplementaryRisk(final_score) ==
    IF final_score > 75 THEN "low" ELSE IF final_score > 50 THEN "medium" ELSE "high"

FinalScoreUnclamped(base_score, score_variation) == base_score + score_variation

\* max(0, min(100, base_score + score_variation))
FinalScore(base_score, score_variation) ==
    Max(0, Min(100, base_score + score_variation))

Supplementary(module, score_variation, second, third, sources) ==
    LET final_score == FinalScore(module.base_score, score_variation) IN
    ModuleResult(module.id,
        Analysis(final_score, SupplementaryRisk(final_score),
                 <<"Analise completada com score " \o ToString(final_score)
                       \o "/100",
                   second, third>>,
                 sources))

CnpjSupplementary(module, score_variation) ==
    Supplementary(module, score_variation,
                  "Dados coletados de fontes oficiais",
                  "Avaliacao baseada em criterios objetivos",
                  <<"Bases Governamentais", "Registros Publicos">>)

CpfSupplementary(module, score_variation) ==
    Supplementary(module, score_variation,
                  "Verificacao realizada em bases oficiais",
                  "Dados coletados conforme metodologia estabelecida",
                  <<"Orgaos Publicos", "Bases Governamentais">>)

\* A variant of the loop that inserts each result at the head of the list
\* instead of appending it.
CnpjLoopInsertsAtHead(modules_results, seed, stride) ==
    [k \in 1..Len(additional_modules) |->
        CnpjSupplementary(additional_modules[Len(additional_modules) + 1 - k],
                          RandInt(seed, stride, Len(additional_modules) - k))]
        \o modules_results

\* The loop "for module in additional_modules": one result per module, in
\* list order, appended to modules_results.
CnpjLoop(modules_results, seed, stride) ==
    modules_results \o
        [k \in 1..Len(additional_modules) |->
            CnpjSupplementary(additional_modules[k], RandInt(seed, stride, k - 1))]

\* A variant of the loop that also applies the jitter to the scores of the
\* modules already in the list.
CpfLoopJittersAll(modules_results, seed, stride) ==
    [i \in 1..Len(modules_results) |->
        [modules_results[i] EXCEPT
            !.score = FinalScore(@, RandInt(seed, stride, i))]]
    \o [k \in 1..Len(additional_cpf_modules) |->
            CpfSupplementary(additional_cpf_modules[k],
                             RandInt(seed, stride, k - 1))]

CpfLoop(modules_results, seed, stride) ==
    modules_results \o
        [k \in 1..Len(additional_cpf_modules) |->
            CpfSupplementary(additional_cpf_modules[k],
                             RandInt(seed, stride, k - 1))]

\* ------------------------------------------------------------------------
\* routers/analysis.py: the reduction
\* ------------------------------------------------------------------------

RECURSIVE SumScores(_)
\* sum(m["score"] for m in modules_results)
SumScores(modules) ==
    IF modules = <<>> THEN 0 ELSE Head(modules).score + SumScores(Tail(modules))

RECURSIVE SumFindings(_)
\* sum(len(m["findings"]) for m in modules_results)
SumFindings(modules) ==
    IF modules = <<>> THEN 0
    ELSE Len(Head(modules).findings) + SumFindings(Tail(modules))

CountNotLow(modules) ==
    Cardinality({i \in DOMAIN modules : modules[i].risk # "low"})

\* sum(1 for m in modules_results if m["risk"] == "high")
CountHigh(modules) ==
    Cardinality({i \in DOMAIN modules : modules[i].risk = "high"})

RoundDown(num, den) == num \div den

\* round(num / den): Python rounds to the nearest integer, a tie to the
\* even one.
Round(num, den) ==
    LET q == num \div den
        r == num % den
    IN  IF 2 * r < den THEN q
        ELSE IF 2 * r > den THEN q + 1
        ELSE IF q % 2 = 0 THEN q ELSE q + 1

RiskLevelOfRounded(total, n) ==
    IF Round(total, n) > 80 THEN "low"
    ELSE IF Round(total, n) > 60 THEN "medium" ELSE "high"

\* "low" if overall_score > 80 else "medium" if overall_score > 60 else
\* "high", where overall_score is the quotient total / n before rounding.
RiskLevel(total, n) ==
    IF total > 80 * n THEN "low" ELSE IF total > 60 * n THEN "medium" ELSE "high"

\* The dictionary perform_cnpj_analysis and perform_cpf_analysis return.
Report(modules, entity_info) ==
    [overall_score |-> Round(SumScores(modules), Len(modules)),
     risk_level |-> RiskLevel(SumScores(modules), Len(modules)),
     total_findings |-> SumFindings(modules),
     critical_issues |-> CountHigh(modules),
     modules |-> modules,
     entity_info |-> entity_info]

CnpjEntityInfo(cnpj_data, cnpj) ==
    [name |-> Get(cnpj_data.nome, "N/A"),
     document |-> Join(cnpj),
     status |-> Get(cnpj_data.situacao, "N/A"),
     type |-> "Pessoa Juridica"]

CpfEntityInfo(cpf) ==
    [name |-> "Pessoa Fisica",
     document |-> FormatCpf(cpf),
     status |-> "Ativo",
     type |-> "Pessoa Fisica"]

NoEntity == [name |-> "", document |-> "", status |-> "", type |-> ""]

\* No report: the value of the analysis before the run returns.
NoReport ==
    [overall_score |-> 0, risk_level |-> "", total_findings |-> 0,
     critical_issues |-> 0, modules |-> <<>>, entity_info |-> NoEntity]

\* ------------------------------------------------------------------------
\* State
\* ------------------------------------------------------------------------

VARIABLES
    pc,               \* the await at which the handler is suspended
    request,          \* the HTTP request being served
    net,              \* "up", or "down": every outbound call fails
    validation,       \* the dictionary validate_document returned
    calls,            \* per source, the outcome of the outbound call made
    results,          \* fetch_cnpj: what each gathered task has returned
    cnpj_data,        \* the merged registration data
    partial,          \* score, risk and findings of an analyzer in progress
    modules_results,  \* the list the run appends to
    response,         \* the HTTP response
    in_order,         \* history: the gathered calls completed in list order
    suspended         \* the locals of a second request awaiting the event loop

vars ==
    <<pc, request, net, validation, calls, results, cnpj_data, partial,
      modules_results, response, in_order, suspended>>

NoRequest == [endpoint |-> "none", document |-> <<>>, authorized |-> FALSE]
NoValidation == [valid |-> FALSE, type |-> "", document |-> <<>>]
NoAnalysis == Analysis(0, "", <<>>, <<>>)

NoResponse ==
    [status |-> 0, detail |-> "", document |-> <<>>, type |-> "",
     analysis |-> NoReport]

\* raise HTTPException(status_code, detail), and an exception that escapes
\* the handler (the framework answers 500).
HttpError(status, detail) ==
    [status |-> status, detail |-> detail, document |-> <<>>, type |-> "",
     analysis |-> NoReport]

InternalServerError == HttpError(500, "Internal Server Error")

\* The locals of one request: each handler invocation has its own, and the
\* services keep no state (RealAnalysisService has static methods only).
Frame(p, req, n, v, c, res, data, part, modules, resp, ord) ==
    [pc |-> p, request |-> req, net |-> n, validation |-> v, calls |-> c,
     results |-> res, cnpj_data |-> data, partial |-> part,
     modules_results |-> modules, response |-> resp, in_order |-> ord]

\* The locals of a request that has not been received.
IdleFrame ==
    Frame("idle", NoRequest, "up", NoValidation, [s \in Sources |-> NotCalled],
          [i \in 1..Len(RegistrySources) |-> Pending], NoData(<<>>), NoAnalysis,
          <<>>, NoResponse, TRUE)

\* No second request.
NoRun == [IdleFrame EXCEPT !.pc = "none"]

Init ==
    /\ pc = "idle"
    /\ request = NoRequest
    /\ net = "up"
    /\ validation = NoValidation
    /\ calls = [s \in Sources |-> NotCalled]
    /\ results = [i \in 1..Len(RegistrySources) |-> Pending]
    /\ cnpj_data = NoData(<<>>)
    /\ partial = NoAnalysis
    /\ modules_results = <<>>
    /\ response = NoResponse
    /\ in_order = TRUE
    /\ suspended = NoRun

\* Outbound calls so far that answered with something else than the clean
\* payload.
\* CEIS and CNEP are two endpoints of one service, queried with the same
\* cnpjSancionado parameter: they count as one when both misbehave.
Service(src) == IF src = "cnep" THEN "ceis" ELSE src

\* The services that gave a run other than their clean answer, the one
\* about to answer included.
Anomalous(c, next) ==
    {Service(s) : s \in {t \in Sources : c[t] \notin {NotCalled, Clean(t)}}
                          \cup next}

Anomalies(next) ==
    Cardinality(Anomalous(calls, next))
    + Cardinality(Anomalous(suspended.calls, {}))

AnomalyBudget ==
    IF suspended = NoRun THEN MaxAnomalies ELSE MaxAnomaliesOfTwo

\* The jitter sequences random.randint may draw: every one when a single
\* request is served, the lowest, a middle and the highest constant sequence
\* when two are.
JitterSeeds == IF suspended = NoRun THEN Seeds ELSE {0, 20, JitterSpan - 1}
JitterStrides == IF suspended = NoRun THEN Strides ELSE {0}

\* The outcomes the transport may give the next call to src.
Allowed(src) ==
    IF net = "down" THEN {TransportError}
    ELSE IF Anomalies({src}) <= AnomalyBudget THEN Outcomes(src)
    ELSE {Clean(src)}

\* ------------------------------------------------------------------------
\* routers/analysis.py: the handlers
\* ------------------------------------------------------------------------

\* POST /analysis, up to its first await.  The dependency get_current_user
\* answers 401 before the handler body runs.
analyze_document(document, authorized, network) ==
    /\ pc = "idle"
    /\ UNCHANGED suspended
    /\ request' = [endpoint |-> "POST /analysis", document |-> document,
                   authorized |-> authorized]
    /\ net' = network
    /\ UNCHANGED <<calls, results, cnpj_data, partial, modules_results,
                   in_order>>
    /\ IF ~authorized
       THEN /\ response' = HttpError(401, "Credenciais invalidas")
            /\ pc' = "done"
            /\ UNCHANGED validation
       ELSE IF Strip(document) = <<>>
       THEN /\ response' = HttpError(400, "Document is required")
            /\ pc' = "done"
            /\ UNCHANGED validation
       ELSE /\ validation' = validate_document(Strip(document))
            /\ IF ~validation'.valid
               THEN /\ response' = HttpError(400, "Invalid " \o validation'.type)
                    /\ pc' = "done"
               ELSE /\ UNCHANGED response
                    /\ pc' = IF validation'.type = "cnpj"
                             THEN "gather" ELSE "cpf_rfb"

\* GET /analysis/{document} (also mounted as GET /api/analysis/{document})
get_validate_document(document) ==
    /\ pc = "idle"
    /\ UNCHANGED suspended
    /\ request' = [endpoint |-> "GET /analysis/{document}",
                   document |-> document, authorized |-> FALSE]
    /\ validation' = validate_document(Strip(document))
    /\ response' = IF ~validation'.valid
                   THEN HttpError(400, "Invalid " \o validation'.type)
                   ELSE [status |-> 200, detail |-> "",
                         document |-> validation'.document,
                         type |-> validation'.type, analysis |-> NoReport]
    /\ pc' = "done"
    /\ UNCHANGED <<net, calls, results, cnpj_data, partial, modules_results,
                   in_order>>

\* The answer of analyze_document once the run has returned its report.
Answer(analysis_result) ==
    [status |-> 200, detail |-> "", document |-> validation.document,
     type |-> validation.type, analysis |-> analysis_result]

\* One of the three gathered fetch_json tasks of fetch_cnpj completes.
fetch_json_return(i) ==
    /\ pc = "gather"
    /\ UNCHANGED suspended
    /\ results[i] = Pending
    /\ \E out \in Allowed(RegistrySources[i]) :
        /\ calls' = [calls EXCEPT ![RegistrySources[i]] = out]
        /\ results' = [results EXCEPT ![i] = fetch_json(out)]
    /\ in_order' = (in_order /\ \A j \in 1..(i - 1) : results[j] # Pending)
    /\ UNCHANGED <<pc, request, net, validation, cnpj_data, partial,
                   modules_results, response>>

\* The gather returns: fetch_cnpj merges and returns, perform_cnpj_analysis
\* builds the cadastral module and awaits the sanctions analyzer.
fetch_cnpj_return ==
    /\ pc = "gather"
    /\ UNCHANGED suspended
    /\ \A i \in DOMAIN results : results[i] # Pending
    /\ LET merged == fetch_cnpj(results, validation.document) IN
       IF merged.raised
       THEN /\ response' = InternalServerError
            /\ pc' = "done"
            /\ UNCHANGED <<cnpj_data, modules_results>>
       ELSE /\ cnpj_data' = merged.data
            /\ IF CadastralRaises(merged.data)
               THEN /\ response' = InternalServerError
                    /\ pc' = "done"
                    /\ UNCHANGED modules_results
               ELSE /\ modules_results' =
                         <<CnpjCadastral(merged.data, validation.document)>>
                    /\ pc' = "ceis"
                    /\ UNCHANGED response
    /\ UNCHANGED <<request, net, validation, calls, results, partial,
                   in_order>>

\* An outbound call to src completes with outcome out.
Call(src, out) == calls' = [calls EXCEPT ![src] = out]

\* modules_results.append(...) followed by the await of the next analyzer.
AppendAndAwait(module, next) ==
    /\ modules_results' = Append(modules_results, module)
    /\ pc' = next
    /\ UNCHANGED response

\* The last analyzer has returned: the supplementary loop, the reduction and
\* the return of the report run without an await.
CnpjFinish(labor_result, seed, stride) ==
    LET modules == CnpjLoop(Append(modules_results,
                                   ModuleResult("labor", labor_result)),
                            seed, stride)
    IN  /\ modules_results' = modules
        /\ response' = Answer(Report(modules,
                                     CnpjEntityInfo(cnpj_data, validation.document)))
        /\ pc' = "done"

CpfFinish(pep_module, seed, stride) ==
    LET modules == CpfLoop(Append(modules_results, pep_module), seed, stride)
    IN  /\ modules_results' = modules
        /\ response' = Answer(Report(modules, CpfEntityInfo(validation.document)))
        /\ pc' = "done"

\* analyze_cnpj_sanctions: the CEIS call returns.
sanctions_ceis_return ==
    /\ pc = "ceis"
    /\ UNCHANGED suspended
    /\ \E out \in Allowed("ceis") :
        /\ Call("ceis", out)
        /\ partial' = analyze_cnpj_sanctions_ceis(fetch_with_timeout(out))
    /\ pc' = "cnep"
    /\ UNCHANGED <<request, net, validation, results, cnpj_data,
                   modules_results, response, in_order>>

\* analyze_cnpj_sanctions: the CNEP call returns, the analyzer returns.
sanctions_cnep_return ==
    /\ pc = "cnep"
    /\ UNCHANGED suspended
    /\ \E out \in Allowed("cnep") :
        /\ Call("cnep", out)
        /\ AppendAndAwait(
               ModuleResult("sanctions",
                   analyze_cnpj_sanctions_cnep(partial, fetch_with_timeout(out))),
               "jusbrasil")
    /\ partial' = NoAnalysis
    /\ UNCHANGED <<request, net, validation, results, cnpj_data, in_order>>

legal_return ==
    /\ pc = "jusbrasil"
    /\ UNCHANGED suspended
    /\ \E out \in Allowed("jusbrasil") :
        /\ Call("jusbrasil", out)
        /\ AppendAndAwait(
               ModuleResult("legal", analyze_cnpj_legal(fetch_with_timeout(out))),
               "rfb")
    /\ UNCHANGED <<request, net, validation, results, cnpj_data, partial,
                   in_order>>

fiscal_return ==
    /\ pc = "rfb"
    /\ UNCHANGED suspended
    /\ \E out \in Allowed("rfb") :
        /\ Call("rfb", out)
        /\ AppendAndAwait(
               ModuleResult("fiscal",
                   analyze_fiscal_situation(fetch_with_timeout(out))),
               "newsapi")
    /\ UNCHANGED <<request, net, validation, results, cnpj_data, partial,
                   in_order>>

\* The entity name passed to analyze_media_mentions only builds the URL.
media_return ==
    /\ pc = "newsapi"
    /\ UNCHANGED suspended
    /\ \E out \in Allowed("newsapi") :
        /\ Call("newsapi", out)
        /\ AppendAndAwait(
               ModuleResult("media",
                   analyze_media_mentions(fetch_with_timeout(out))),
               "ibama")
    /\ UNCHANGED <<request, net, validation, results, cnpj_data, partial,
                   in_order>>

\* analyze_environmental: the IBAMA call returns.
environmental_ibama_return ==
    /\ pc = "ibama"
    /\ UNCHANGED suspended
    /\ \E out \in Allowed("ibama") :
        /\ Call("ibama", out)
        /\ LET step == analyze_environmental_ibama(fetch_with_timeout(out)) IN
           IF step.pending
           THEN /\ pc' = "ibama_api"
                /\ UNCHANGED <<modules_results, response>>
           ELSE AppendAndAwait(ModuleResult("environmental", step.result), "mte")
    /\ UNCHANGED <<request, net, validation, results, cnpj_data, partial,
                   in_order>>

\* analyze_environmental: the alternative check returns.
environmental_alt_return ==
    /\ pc = "ibama_api"
    /\ UNCHANGED suspended
    /\ \E out \in Allowed("ibama_api") :
        /\ Call("ibama_api", out)
        /\ AppendAndAwait(
               ModuleResult("environmental",
                   analyze_environmental_alt(fetch_with_timeout(out))),
               "mte")
    /\ UNCHANGED <<request, net, validation, results, cnpj_data, partial,
                   in_order>>

\* analyze_labor_issues: the MTE call returns.
labor_mte_return ==
    /\ pc = "mte"
    /\ UNCHANGED suspended
    /\ \E out \in Allowed("mte") :
        /\ Call("mte", out)
        /\ LET step == analyze_labor_issues_mte(fetch_with_timeout(out)) IN
           IF step.pending
           THEN /\ pc' = "caged"
                /\ UNCHANGED <<modules_results, response>>
           ELSE \E seed \in JitterSeeds, stride \in JitterStrides :
                    CnpjFinish(step.result, seed, stride)
    /\ UNCHANGED <<request, net, validation, results, cnpj_data, partial,
                   in_order>>

\* analyze_labor_issues: the CAGED call returns.
labor_caged_return ==
    /\ pc = "caged"
    /\ UNCHANGED suspended
    /\ \E out \in Allowed("caged"), seed \in JitterSeeds, stride \in JitterStrides :
        /\ Call("caged", out)
        /\ CnpjFinish(analyze_labor_issues_caged(fetch_with_timeout(out)),
                      seed, stride)
    /\ UNCHANGED <<request, net, validation, results, cnpj_data, partial,
                   in_order>>

\* perform_cpf_analysis: the calls are made by the function itself.
cpf_cadastral_return ==
    /\ pc = "cpf_rfb"
    /\ UNCHANGED suspended
    /\ \E out \in Allowed("cpf_rfb") :
        /\ Call("cpf_rfb", out)
        /\ AppendAndAwait(CpfCadastral(out, validation.document), "cpf_ceis")
    /\ UNCHANGED <<request, net, validation, results, cnpj_data, partial,
                   in_order>>

cpf_sanctions_return ==
    /\ pc = "cpf_ceis"
    /\ UNCHANGED suspended
    /\ \E out \in Allowed("cpf_ceis") :
        /\ Call("cpf_ceis", out)
        /\ AppendAndAwait(CpfSanctions(out), "cpf_cadin")
    /\ UNCHANGED <<request, net, validation, results, cnpj_data, partial,
                   in_order>>

cpf_cadin_return ==
    /\ pc = "cpf_cadin"
    /\ UNCHANGED suspended
    /\ \E out \in Allowed("cpf_cadin") :
        /\ Call("cpf_cadin", out)
        /\ AppendAndAwait(CpfCadin(out), "cpf_pep")
    /\ UNCHANGED <<request, net, validation, results, cnpj_data, partial,
                   in_order>>

cpf_pep_return ==
    /\ pc = "cpf_pep"
    /\ UNCHANGED suspended
    /\ \E out \in Allowed("cpf_pep"), seed \in JitterSeeds, stride \in JitterStrides :
        /\ Call("cpf_pep", out)
        /\ CpfFinish(CpfPep(out), seed, stride)
    /\ UNCHANGED <<request, net, validation, results, cnpj_data, partial,
                   in_order>>

Next ==
    \/ \E d \in Documents, a \in BOOLEAN, n \in {"up", "down"} :
           analyze_document(d, a, n)
    \/ \E d \in Documents : get_validate_document(d)
    \/ \E i \in DOMAIN results : fetch_json_return(i)
    \/ fetch_cnpj_return
    \/ sanctions_ceis_return
    \/ sanctions_cnep_return
    \/ legal_return
    \/ fiscal_return
    \/ media_return
    \/ environmental_ibama_return
    \/ environmental_alt_return
    \/ labor_mte_return
    \/ labor_caged_return
    \/ cpf_cadastral_return
    \/ cpf_sanctions_return
    \/ cpf_cadin_return
    \/ cpf_pep_return

Spec == Init /\ [][Next]_vars

\* ------------------------------------------------------------------------
\* Vocabulary of the properties
\* ------------------------------------------------------------------------

Post == request.endpoint = "POST /analysis"

\* The checksum verdict on a submitted document, by kind.
DocValid(document) ==
    LET cleaned == clean_document(document) IN
    \/ (Len(cleaned) = 11 /\ is_valid_cpf(cleaned))
    \/ (Len(cleaned) = 14 /\ is_valid_cnpj(cleaned))

\* The request is one the run must serve: authorized, with a valid document.
Accepted == Post /\ request.authorized /\ DocValid(request.document)

\* The run has returned and the handler answered with its report.
HasReport == pc = "done" /\ Post /\ response.status = 200

report == response.analysis

SomeCall == \E s \in Sources : calls[s] # NotCalled

\* Every outbound call of the run failed.
AllFailed == \A s \in Sources : calls[s] \in Failures \cup {NotCalled}

Ids(modules) == [i \in 1..Len(modules) |-> modules[i].id]

\* The canonical roster of each kind, in its numbered sequence.
CnpjRoster ==
    <<"cadastral", "sanctions", "legal", "fiscal", "media", "environmental",
      "labor", "corporate", "financial", "regulatory", "international", "pep",
      "technology", "sectoral", "operational">>

CpfRoster ==
    <<"cadastral", "sanctions", "cadin", "pep", "criminal", "civil_processes",
      "electoral", "financial", "professional", "property", "social_media",
      "labor_issues", "tax_compliance", "behavioral", "risk_profile">>

Roster(type) == IF type = "cnpj" THEN CnpjRoster ELSE CpfRoster

\* The number of source-backed modules at the head of each roster.
SourceBacked(type) == IF type = "cnpj" THEN 7 ELSE 4

\* The sources each source-backed module depends on.
ModuleSources(type, id) ==
    IF type = "cnpj"
    THEN CASE id = "cadastral" -> {"minhareceita", "cnpja", "receitaws"}
           [] id = "sanctions" -> {"ceis", "cnep"}
           [] id = "legal" -> {"jusbrasil"}
           [] id = "fiscal" -> {"rfb"}
           [] id = "media" -> {"newsapi"}
           [] id = "environmental" -> {"ibama", "ibama_api"}
           [] id = "labor" -> {"mte", "caged"}
    ELSE CASE id = "cadastral" -> {"cpf_rfb"}
           [] id = "sanctions" -> {"cpf_ceis"}
           [] id = "cadin" -> {"cpf_cadin"}
           [] id = "pep" -> {"cpf_pep"}

CleanBody(src) == fetch_with_timeout(Clean(src))

\* The source-backed modules of a run in which every source answers with its
\* clean payload.
CleanModules(type, document) ==
    IF type = "cnpj"
    THEN <<CnpjCadastral(
               Merge([i \in 1..3 |-> fetch_json(Clean(RegistrySources[i]))],
                     1, NoData(document)),
               document),
           ModuleResult("sanctions",
               analyze_cnpj_sanctions_cnep(
                   analyze_cnpj_sanctions_ceis(CleanBody("ceis")),
                   CleanBody("cnep"))),
           ModuleResult("legal", analyze_cnpj_legal(CleanBody("jusbrasil"))),
           ModuleResult("fiscal", analyze_fiscal_situation(CleanBody("rfb"))),
           ModuleResult("media", analyze_media_mentions(CleanBody("newsapi"))),
           ModuleResult("environmental",
               analyze_environmental_alt(CleanBody("ibama_api"))),
           ModuleResult("labor",
               analyze_labor_issues_caged(CleanBody("caged")))>>
    ELSE <<CpfCadastral(Clean("cpf_rfb"), document),
           CpfSanctions(Clean("cpf_ceis")),
           CpfCadin(Clean("cpf_cadin")),
           CpfPep(Clean("cpf_pep"))>>

Abs(x) == IF x < 0 THEN -x ELSE x

\* The one score-to-risk mapping: above 75 low, 50 to 75 medium, below 50
\* high.
ThresholdRisk(score) ==
    IF score > 75 THEN "low" ELSE IF score >= 50 THEN "medium" ELSE "high"

\* ------------------------------------------------------------------------
\* Properties
\* ------------------------------------------------------------------------

\* C1: an accepted run (valid document, any combination of source outcomes)
\* always ends with a complete report; no source or module failure escapes
\* the run as an error.
C1_RunIsTotal ==
    (pc = "done" /\ Accepted) =>
        (response.status = 200 /\ Len(report.modules) = 15)

\* C2: when every source call of a run fails, the report holds the whole
\* roster exactly once and every source-backed module differs from the
\* result it gives on clean data.
C2_AllFailedIsDegraded ==
    (HasReport /\ AllFailed) =>
        /\ Ids(report.modules) = Roster(validation.type)
        /\ \A i \in 1..SourceBacked(validation.type) :
               report.modules[i] #
                   CleanModules(validation.type, validation.document)[i]

\* C3: a source-backed module all of whose sources failed is present in the
\* report with risk "medium".
C3_DegradedIsMedium ==
    HasReport =>
        \A i \in 1..SourceBacked(validation.type) :
            (\A s \in ModuleSources(validation.type, report.modules[i].id) :
                 calls[s] \in Failures)
                => report.modules[i].risk = "medium"

\* C4: overall_score is the mean of the scores of all modules of the report,
\* rounded to the nearest integer (a tie to the even one).
C4_OverallScoreIsRoundedMean ==
    /\ HasReport =>
        LET n == Len(report.modules)
            total == SumScores(report.modules)
            off == Abs(report.overall_score * n - total)
        IN  /\ n = 15
            /\ 2 * off <= n
            /\ (2 * off = n => report.overall_score % 2 = 0)
    /\ Round(5 * 100, 5) = 100
    /\ Round(0, 5) = 0
    /\ Round(85 + 25 + 75 + 70 + 90, 5) = 69

\* A report whose mean is rounded up.
C4_Witness ==
    /\ HasReport
    /\ 2 * (SumScores(report.modules) % 15) > 15
    /\ report.overall_score = SumScores(report.modules) \div 15 + 1

\* C5: risk_level is the threshold function of the reported overall_score.
C5_RiskLevelOfReportedScore ==
    HasReport =>
        report.risk_level =
            (IF report.overall_score > 80 THEN "low"
             ELSE IF report.overall_score > 60 THEN "medium" ELSE "high")

RECURSIVE FindingsTotal(_, _)
FindingsTotal(modules, i) ==
    IF i = 0 THEN 0 ELSE FindingsTotal(modules, i - 1) + Len(modules[i].findings)

\* C6: critical_issues counts the modules of the report with risk "high",
\* total_findings adds up the lengths of their findings lists.
C6_CountsMatchModules ==
    HasReport =>
        /\ report.critical_issues =
               Cardinality({i \in 1..Len(report.modules) :
                               report.modules[i].risk = "high"})
        /\ report.total_findings =
               FindingsTotal(report.modules, Len(report.modules))

\* A report with a high-risk module and a medium-risk one.
C6_Witness ==
    /\ HasReport
    /\ report.critical_issues >= 1
    /\ \E i \in 1..Len(report.modules) : report.modules[i].risk = "medium"

\* C7: the risk of every module result is the one threshold function of its
\* score.
C7_RiskIsThresholdOfScore ==
    \A i \in 1..Len(modules_results) :
        modules_results[i].risk = ThresholdRisk(modules_results[i].score)

\* C8: the modules are appended and reported in the canonical roster order,
\* whatever the order in which the gathered calls completed.
C8_CanonicalOrder ==
    /\ Len(modules_results) > 0 =>
           Ids(modules_results) =
               SubSeq(Roster(validation.type), 1, Len(modules_results))
    /\ HasReport => Ids(report.modules) = Roster(validation.type)

\* A company report of a run whose registry calls completed out of order.
C8_Witness == HasReport /\ validation.type = "cnpj" /\ ~in_order

\* C9: no outbound call is made for a document that fails validation, and
\* such a document is answered 400 with the detected kind.
C9_InvalidRejectedBeforeAnyCall ==
    /\ SomeCall => (Post /\ DocValid(request.document))
    /\ (pc = "done" /\ ~DocValid(request.document)
            /\ (Post => request.authorized /\ Strip(request.document) # <<>>))
         => /\ response.status = 400
            /\ response.detail =
                   "Invalid " \o validate_document(request.document).type
            /\ ~SomeCall

\* A repeated-digit company document rejected on POST /analysis.
C9_Witness ==
    /\ pc = "done"
    /\ Post
    /\ request.authorized
    /\ request.document = CnpjRepeated
    /\ response.status = 400
    /\ response.detail = "Invalid cnpj"
    /\ ~SomeCall

\* The end-to-end scenario: document 00000000000191, the registration
\* source reports the active status, every other source answers clean.
EndToEnd ==
    /\ HasReport
    /\ validation.document = CnpjValid
    /\ \A s \in CnpjSources : calls[s] = Clean(s)

\* C10: the end-to-end scenario yields risk_level "low" and no critical
\* issue, whatever jitter the supplementary modules receive.
C10_EndToEndLow ==
    EndToEnd => (report.risk_level = "low" /\ report.critical_issues = 0)

\* The keys of the JSON body of the response: HTTPException gives
\* {"detail"}, GET /analysis/{document} returns document and type, POST
\* /analysis returns document, type, analysis and timestamp.
ResponseKeys ==
    IF response.status = 0 THEN {}
    ELSE IF response.status # 200 THEN {"detail"}
    ELSE IF Post THEN {"document", "type", "analysis", "timestamp"}
    ELSE {"document", "type"}

\* GET /analysis/{document} was answered for a valid company document.
GetOfValidCnpj ==
    /\ pc = "done"
    /\ ~Post
    /\ validation.valid
    /\ validation.type = "cnpj"

\* C11: GET /analysis/{cnpj} for a valid CNPJ answers 200 with a body that
\* holds the registration data under "data" (data.cnpj the requested CNPJ)
\* and the path of the generated report under "pdf".
C11_GetReturnsDataAndPdf ==
    GetOfValidCnpj =>
        /\ response.status = 200
        /\ "data" \in ResponseKeys
        /\ "pdf" \in ResponseKeys

\* ------------------------------------------------------------------------
\* Validation on its own: validate_document applied to generated documents
\* ------------------------------------------------------------------------

\* The n-character digit string that starts at digit a and advances by b.
DigitString(a, b, n) == [i \in 1..n |-> StrOf((a + (i - 1) * b) % 10)[1]]

Starts == 0..9
Steps == 0..MaxDigitStep

\* The same digits as a client may format them.
Decorated(s) ==
    <<" ">> \o SubSeq(s, 1, 2) \o <<".">> \o SubSeq(s, 3, Len(s)) \o <<"a">>

\* The same string with its ones written as the non-ASCII digit one.
WithUnicodeOnes(s) == [i \in 1..Len(s) |-> IF s[i] = "1" THEN "U0661" ELSE s[i]]

\* Twelve generated digits followed by every pair of check digits, nine
\* generated digits followed by every pair, digit strings of every length
\* up to MaxDocLen plain, decorated and with non-ASCII ones, and the
\* documents of the handlers.
ValidateInputs ==
    {DigitString(a, b, 12) \o <<StrOf(c1)[1], StrOf(c2)[1]>> :
        <<a, b, c1, c2>> \in Starts \X Steps \X (0..9) \X (0..9)}
    \cup {DigitString(a, b, 9) \o <<StrOf(c1)[1], StrOf(c2)[1]>> :
        <<a, b, c1, c2>> \in Starts \X Steps \X (0..9) \X (0..9)}
    \cup {DigitString(a, b, n) : <<a, b, n>> \in Starts \X Steps \X (0..MaxDocLen)}
    \cup {WithUnicodeOnes(DigitString(a, b, n)) :
        <<a, b, n>> \in Starts \X Steps \X (0..MaxDocLen)}
    \cup {Decorated(DigitString(a, b, n)) :
        <<a, b, n>> \in Starts \X Steps \X (2..MaxDocLen)}
    \cup Documents

ValidateInit ==
    /\ pc = "idle"
    /\ request \in [endpoint : {"validate_document"}, document : ValidateInputs,
                    authorized : {FALSE}]
    /\ net = "up"
    /\ validation = NoValidation
    /\ calls = [s \in Sources |-> NotCalled]
    /\ results = [i \in 1..Len(RegistrySources) |-> Pending]
    /\ cnpj_data = NoData(<<>>)
    /\ partial = NoAnalysis
    /\ modules_results = <<>>
    /\ response = NoResponse
    /\ in_order = TRUE
    /\ suspended = NoRun

\* validate.validate_document(document)
validate_document_call ==
    /\ pc = "idle"
    /\ UNCHANGED suspended
    /\ validation' = validate_document(request.document)
    /\ pc' = "validated"
    /\ UNCHANGED <<request, net, calls, results, cnpj_data, partial,
                   modules_results, response, in_order>>

ValidateNext == validate_document_call

SpecValidate == ValidateInit /\ [][ValidateNext]_vars

Validated == pc = "validated"

AllDigits(s) == \A i \in 1..Len(s) : s[i] \in DigitChars

AllIdentical(s) == Cardinality({s[i] : i \in 1..Len(s)}) = 1

RECURSIVE PublishedSum(_, _, _)
\* The mod-11 weighting as published: over the first n digits, the weights
\* run 2, 3, ..., 9, 2, 3, ... from the last of them to the first.
PublishedSum(s, n, i) ==
    IF i > n THEN 0
    ELSE IntOf(s[i]) * (2 + ((n - i) % 8)) + PublishedSum(s, n, i + 1)

PublishedCnpjDigit(s, n) ==
    LET r == PublishedSum(s, n, 1) % 11 IN IF r < 2 THEN 0 ELSE 11 - r

\* The last two digits of a 14-digit string are its two check digits.
CnpjChecksumHolds(s) ==
    /\ IntOf(s[13]) = PublishedCnpjDigit(s, 12)
    /\ IntOf(s[14]) = PublishedCnpjDigit(s, 13)

\* C12: a 14-digit string that is not all-identical and carries its two
\* mod-11 check digits is valid; an all-identical string of 14 or of 11
\* digits is not valid, whatever its checksum.
C12_ChecksumAndRepeatedDigits ==
    (Validated /\ AllDigits(request.document)) =>
        LET s == request.document IN
        /\ (Len(s) = 14 /\ ~AllIdentical(s) /\ CnpjChecksumHolds(s))
               => validation.valid
        /\ (Len(s) \in {11, 14} /\ AllIdentical(s)) => ~validation.valid

\* Fourteen zeros, which carry the check digits of twelve zeros, validated
\* and found invalid.
C12_Witness ==
    /\ Validated
    /\ request.document = CnpjRepeated
    /\ CnpjChecksumHolds(request.document)
    /\ ~validation.valid

\* A 14-digit string that is not all-identical validated and found valid.
C12_ValidWitness ==
    /\ Validated
    /\ Len(request.document) = 14
    /\ AllDigits(request.document)
    /\ ~AllIdentical(request.document)
    /\ validation.valid

\* The number of decimal digit characters of a document.
DigitCount(s) == Cardinality({i \in 1..Len(s) : s[i] \in DecimalDigits})

\* C13: the type is decided by the number of digits of the document alone
\* (11 cpf, 14 cnpj, otherwise unknown and not valid), the returned document
\* holds exactly the digits, and a valid document is a cpf or a cnpj.
C13_ClassifiedByCleanedLength ==
    Validated =>
        LET n == DigitCount(request.document) IN
        /\ validation.type =
               (IF n = 11 THEN "cpf" ELSE IF n = 14 THEN "cnpj" ELSE "unknown")
        /\ (n \notin {11, 14}) => ~validation.valid
        /\ Len(validation.document) = n
        /\ \A i \in 1..Len(validation.document) :
               validation.document[i] \in DecimalDigits
        /\ validation.valid => validation.type \in {"cpf", "cnpj"}

\* A formatted document of 15 characters whose 11 digits make a valid cpf.
C13_Witness ==
    /\ Validated
    /\ request.document = CpfFormatted
    /\ Len(request.document) = 15
    /\ validation = [valid |-> TRUE, type |-> "cpf",
                     document |-> SelectSeq(CpfFormatted, IsDigit)]

\* C14: every module score and the overall score lie in 0..100; a
\* supplementary score is its base score plus the jitter, clamped.
C14_ScoresInRange ==
    /\ \A i \in 1..Len(modules_results) : modules_results[i].score \in 0..100
    /\ HasReport =>
        /\ report.overall_score \in 0..100
        /\ \A i \in 1..Len(report.modules) : report.modules[i].score \in 0..100
        /\ \A k \in 1..(15 - SourceBacked(validation.type)) :
               LET base == IF validation.type = "cnpj"
                           THEN additional_modules[k].base_score
                           ELSE additional_cpf_modules[k].base_score
                   score == report.modules[SourceBacked(validation.type) + k].score
               IN  \/ score - base \in JitterMin..JitterMax
                   \/ (score = 100 /\ base + JitterMax > 100)
                   \/ (score = 0 /\ base + JitterMin < 0)

\* An individual's report in which the jitter is +15 throughout: "criminal"
\* (base 85) reaches 100 and "electoral" (base 90) is clamped to 100.
C14_Witness ==
    /\ HasReport
    /\ validation.type = "cpf"
    /\ report.modules[5].id = "criminal" /\ report.modules[5].score = 100
    /\ report.modules[7].id = "electoral" /\ report.modules[7].score = 100

\* The raw payload of the registration source of the run: the merged
\* registry data of a company, the body the Receita Federal person query
\* answered for an individual (nothing when it did not answer 200 with a
\* JSON object).
RegistrationPayload ==
    IF validation.type = "cnpj"
    THEN [nome |-> cnpj_data.nome, situacao |-> cnpj_data.situacao]
    ELSE LET out == calls["cpf_rfb"] IN
         IF out.kind = "response" /\ out.status = 200 /\ IsDict(out.body)
         THEN [nome |-> out.body.nome, situacao |-> out.body.situacao]
         ELSE [nome |-> NoKey, situacao |-> NoKey]

\* C15: entity_info carries the name and the status of the registration
\* payload whenever the payload has them, the analysed document and its
\* kind.
C15_EntityInfoFromRegistration ==
    HasReport =>
        LET info == report.entity_info
            payload == RegistrationPayload
        IN  /\ payload.nome # NoKey => info.name = payload.nome
            /\ payload.situacao # NoKey => info.status = payload.situacao
            /\ info.document = IF validation.type = "cnpj"
                               THEN Join(validation.document)
                               ELSE FormatCpf(validation.document)
            /\ info.type = IF validation.type = "cnpj"
                           THEN "Pessoa Juridica" ELSE "Pessoa Fisica"

\* The same for company runs alone.
C15_CompanyEntityInfo ==
    (HasReport /\ validation.type = "cnpj") => C15_EntityInfoFromRegistration

\* The sources queried through RealAnalysisService.fetch_with_timeout.
AnalyzerSources ==
    {"ceis", "cnep", "jusbrasil", "rfb", "newsapi", "ibama", "ibama_api", "mte",
     "caged"}

\* C16: whatever the transport does, a source client returns a value: no
\* call through fetch_with_timeout and no gathered fetch_json ends in an
\* exception.
C16_ClientsNeverRaise ==
    /\ \A s \in AnalyzerSources :
           calls[s] # NotCalled => fetch_with_timeout(calls[s]) # Raised
    /\ \A i \in DOMAIN results : results[i] # Raised

\* The same for fetch_with_timeout alone.
C16_FetchWithTimeoutNeverRaises ==
    \A s \in AnalyzerSources :
        calls[s] # NotCalled => fetch_with_timeout(calls[s]) # Raised

\* fetch_cnpj was called for the company document of an accepted request and
\* the gather has returned.
PastGather ==
    /\ Accepted
    /\ validation.type = "cnpj"
    /\ pc \notin {"idle", "gather"}

\* The i-th registry call succeeded with a JSON object.
RegistryObject(i) ==
    LET out == calls[RegistrySources[i]] IN
    out.kind = "response" /\ out.status < 400 /\ out.body.shape = "dict"

\* The i-th registry call succeeded with a JSON array of scalars or a number,
\* a payload dict.update does not accept.
RegistryUnmergeable(i) ==
    LET out == calls[RegistrySources[i]] IN
    /\ out.kind = "response" /\ out.status < 400
    /\ out.body.shape \in {"list", "number"}
    /\ out.body.size > 0

\* The value the last registry source, in list order, that succeeded with an
\* object holding the key gave for it.
LastWins(key) ==
    LET having == {i \in 1..Len(RegistrySources) :
                      RegistryObject(i)
                          /\ calls[RegistrySources[i]].body[key] # NoKey}
    IN  IF having = {} THEN NoKey
        ELSE LET last == CHOOSE i \in having : \A j \in having : j <= i
             IN  calls[RegistrySources[last]].body[key]

\* C17: fetch_cnpj returns the merge of the successful registry payloads in
\* source order, the later source winning each key, whatever the order in
\* which the calls completed; a failed source adds nothing and stops nothing.
C17_MergeInSourceOrder ==
    (PastGather /\ \A i \in 1..Len(RegistrySources) : ~RegistryUnmergeable(i)) =>
        /\ cnpj_data.cnpj = validation.document
        /\ \A key \in {"situacao", "nome", "atividade"} :
               cnpj_data[key] = LastWins(key)

\* The last source to complete was the first of the list and answered an
\* active company, the last of the list answered a closed one: the merged
\* data is the closed one's.
C17_Witness ==
    /\ PastGather
    /\ ~in_order
    /\ calls["minhareceita"] = Clean("minhareceita")
    /\ calls["receitaws"] = Registry("BAIXADA", "Empresa Y", "list")
    /\ cnpj_data.situacao = "BAIXADA"
    /\ cnpj_data.nome = "Empresa Y"

\* The analyzers a run awaits, by kind of document, and the awaits (values
\* of pc) at which each is suspended in a source call.
Analyzers(type) ==
    IF type = "cnpj"
    THEN {"sanctions", "legal", "fiscal", "media", "environmental", "labor"}
    ELSE {"cadastral", "sanctions", "cadin", "pep"}

AwaitsOf(type, analyzer) ==
    IF type = "cnpj"
    THEN CASE analyzer = "sanctions" -> {"ceis", "cnep"}
           [] analyzer = "legal" -> {"jusbrasil"}
           [] analyzer = "fiscal" -> {"rfb"}
           [] analyzer = "media" -> {"newsapi"}
           [] analyzer = "environmental" -> {"ibama", "ibama_api"}
           [] analyzer = "labor" -> {"mte", "caged"}
    ELSE CASE analyzer = "cadastral" -> {"cpf_rfb"}
           [] analyzer = "sanctions" -> {"cpf_ceis"}
           [] analyzer = "cadin" -> {"cpf_cadin"}
           [] analyzer = "pep" -> {"cpf_pep"}

\* The analyzer is in its querying phase.
Querying(analyzer) == pc \in AwaitsOf(validation.type, analyzer)

\* The analyzer has been started: it is querying, or has issued a call, or
\* its result is in the list.
Started(analyzer) ==
    \/ Querying(analyzer)
    \/ \E s \in ModuleSources(validation.type, analyzer) : calls[s] # NotCalled
    \/ \E i \in 1..Len(modules_results) : modules_results[i].id = analyzer

\* C18: whenever the run waits for an analyzer, every analyzer of the roster
\* has been started.
C18_AllStartedBeforeAnyWait ==
    \A a \in Analyzers(validation.type) :
        Querying(a) => \A b \in Analyzers(validation.type) : Started(b)

\* What the code does instead: at most one analyzer is querying, and it was
\* started only after every analyzer before it in the roster had completed.
C18_OneAtATime ==
    /\ Cardinality({a \in Analyzers(validation.type) : Querying(a)}) <= 1
    /\ \A a \in Analyzers(validation.type) :
           Querying(a) =>
               \A i \in 1..Len(modules_results) :
                   modules_results[i].id # a

\* C19: once the gather of fetch_cnpj has returned, each of the three
\* registry calls has run to its own outcome, whatever the outcome of the
\* others, and every key of every call that succeeded is in the merged
\* data.
C19_SiblingsRunToCompletion ==
    /\ (Accepted /\ validation.type = "cnpj" /\ pc = "gather") =>
           \A i \in 1..Len(RegistrySources) :
               (results[i] = Pending) <=> (calls[RegistrySources[i]] = NotCalled)
    /\ (PastGather /\ \A i \in 1..Len(RegistrySources) : ~RegistryUnmergeable(i)) =>
           /\ cnpj_data.cnpj = validation.document
           /\ \A i \in 1..Len(RegistrySources) :
                  /\ calls[RegistrySources[i]] # NotCalled
                  /\ results[i] # Pending
                  /\ RegistryObject(i) =>
                         \A key \in {"situacao", "nome", "atividade"} :
                             calls[RegistrySources[i]].body[key] # NoKey
                                 => cnpj_data[key] # NoKey

\* The first call to complete failed, its two siblings completed after it
\* and succeeded, and their payload is in the merged data.
C19_Witness ==
    /\ PastGather
    /\ in_order
    /\ calls["minhareceita"] \in Failures
    /\ RegistryObject(2)
    /\ RegistryObject(3)
    /\ cnpj_data.nome = "Empresa X"
    /\ cnpj_data.situacao = "ATIVA"

\* The module an analyzer's invocation has put in the list, if it has.
Completed(analyzer) ==
    \E i \in 1..Len(modules_results) :
        modules_results[i].id = analyzer /\ modules_results[i].status = "completed"

\* C20: an analyzer one of whose source calls failed completes with status
\* "completed" and with findings that tell the failure apart from the
\* findings it reports on clean data.
C20_FailureExplainedInFindings ==
    \A i \in 1..Len(modules_results) :
        LET module == modules_results[i] IN
        (/\ i <= SourceBacked(validation.type)
         /\ module.id \in Analyzers(validation.type)
         /\ \E s \in ModuleSources(validation.type, module.id) :
                calls[s] \in Failures)
            => /\ module.status = "completed"
               /\ module.findings #
                      CleanModules(validation.type, validation.document)[i].findings

\* The part of C20 that holds: nothing the engine sees is in a failed state.
C20_NoFailedStatus ==
    \A i \in 1..Len(modules_results) : modules_results[i].status = "completed"


\* ---------------------------------------------------------------------------
\* The company sanctions analyzer
\* ---------------------------------------------------------------------------

\* What the analyzer received from a registry of sanctions.
Received(src) == fetch_with_timeout(calls[src])

\* The registry returned at least one entry / returned none.
SomeEntries(src) == Received(src).shape = "list" /\ Received(src).size > 0
NoEntries(src) == calls[src] # NotCalled /\ ~Truthy(Received(src))

\* The company run has appended its sanctions module.
SanctionsAppended == validation.type = "cnpj" /\ Len(modules_results) >= 2

RiskRank(risk) ==
    CASE risk = "low" -> 0 [] risk = "medium" -> 1 [] risk = "high" -> 2

\* The sanctions module by what the two registries returned.
C22_ByRegistries ==
    SanctionsAppended =>
        LET m == modules_results[2] IN
        /\ m.id = "sanctions"
        /\ SomeEntries("ceis") => (m.score = 25 /\ m.risk = "high")
        /\ (NoEntries("ceis") /\ SomeEntries("cnep")) =>
               (m.score = 40 /\ m.risk = "high")
        /\ (NoEntries("ceis") /\ NoEntries("cnep")) =>
               (m.score = 90 /\ m.risk = "low")

\* The CNEP step against the result the CEIS step left.
C22_CnepStep ==
    (pc = "cnep" /\ pc' = "jusbrasil") =>
        LET m == modules_results'[2] IN
        /\ m.score <= partial.score
        /\ RiskRank(m.risk) >= RiskRank(partial.risk)

\* C22: the company sanctions module is 25/'high' when CEIS returns at least
\* one sanction whatever CNEP returns, 40/'high' when CEIS returns none and
\* CNEP at least one entry, 90/'low' when both return none; and the CNEP step
\* never raises the score nor lowers the risk the CEIS step set.
C22_SanctionsMapping == [](C22_ByRegistries) /\ [][C22_CnepStep]_vars

\* CEIS returned none, CNEP returned entries, and the module was appended.
C22_Witness ==
    /\ SanctionsAppended
    /\ NoEntries("ceis") /\ SomeEntries("cnep")
    /\ modules_results[2].score = 40

\* CEIS returned sanctions and CNEP returned entries too.
C22_WitnessBoth ==
    /\ SanctionsAppended
    /\ SomeEntries("ceis") /\ SomeEntries("cnep")
    /\ modules_results[2].score = 25


\* ---------------------------------------------------------------------------
\* The company cadastral module
\* ---------------------------------------------------------------------------

\* The company run has appended its cadastral module.
CadastralAppended == validation.type = "cnpj" /\ Len(modules_results) >= 1

\* Every registry of the company run failed.
RegistriesFailed ==
    \A i \in DOMAIN RegistrySources : calls[RegistrySources[i]] \in Failures

\* C23: the company cadastral module is 85/'low' exactly when the merged
\* registration payload reports the status ATIVA, and 45/'high' in every other
\* case: status absent, any other status, or the empty payload left when every
\* registry failed.
C23_CadastralMapping ==
    CadastralAppended =>
        LET m == modules_results[1] IN
        /\ m.id = "cadastral"
        /\ IF cnpj_data.situacao = "ATIVA"
           THEN m.score = 85 /\ m.risk = "low"
           ELSE m.score = 45 /\ m.risk = "high"
        /\ RegistriesFailed => (m.score = 45 /\ m.risk = "high")

\* A registry reported a status other than ATIVA and the module is 45/'high'.
C23_Witness ==
    /\ CadastralAppended
    /\ cnpj_data.situacao \notin {"ATIVA", NoKey}
    /\ modules_results[1].score = 45

\* Every registry failed and the module is 45/'high'.
C23_WitnessAllFailed ==
    /\ CadastralAppended
    /\ RegistriesFailed
    /\ cnpj_data.situacao = NoKey
    /\ modules_results[1].risk = "high"


\* ---------------------------------------------------------------------------
\* The supplementary modules are never critical
\* ---------------------------------------------------------------------------

\* The supplementary modules of a report: those after the source-backed ones.
SupplementaryOf(type, modules) ==
    {modules[i] : i \in (SourceBacked(type) + 1)..Len(modules)}

\* C25: every supplementary module of a report scores at least 55 and is
\* 'low' or 'medium', never 'high', whatever the jitter; so critical_issues
\* is at most the number of source-backed modules, 7 for a company and 4 for
\* an individual.
C25_SupplementaryNeverHigh ==
    HasReport =>
        /\ \A m \in SupplementaryOf(validation.type, report.modules) :
               m.score >= 55 /\ m.risk \in {"low", "medium"}
        /\ report.critical_issues <= SourceBacked(validation.type)

\* The lowest jitter on the lowest base score: the company's financial
\* module at 70 - 15, next to a critical source-backed module.
C25_Witness ==
    /\ HasReport
    /\ validation.type = "cnpj"
    /\ report.modules[9].id = "financial"
    /\ report.modules[9].score = 55
    /\ report.modules[9].risk = "medium"
    /\ report.critical_issues >= 1


\* ---------------------------------------------------------------------------
\* The company report when every source fails
\* ---------------------------------------------------------------------------

\* Score and risk of the i-th module of the report.
Scored(i, score, risk) ==
    report.modules[i].score = score /\ report.modules[i].risk = risk

\* C26: the report of a company run all of whose source calls failed has
\* exactly one critical issue, the cadastral module at 45/'high'; sanctions
\* is 90 low, legal 85 low, fiscal 60 medium, media 90 low, environmental 88
\* low, labor 87 low; entity_info.name and entity_info.status are 'N/A'; and
\* risk_level is not 'high'.
C26_AllFailedCompanyReport ==
    (HasReport /\ validation.type = "cnpj" /\ AllFailed) =>
        /\ report.critical_issues = 1
        /\ Ids(SubSeq(report.modules, 1, 7)) = SubSeq(CnpjRoster, 1, 7)
        /\ Scored(1, 45, "high")
        /\ Scored(2, 90, "low")
        /\ Scored(3, 85, "low")
        /\ Scored(4, 60, "medium")
        /\ Scored(5, 90, "low")
        /\ Scored(6, 88, "low")
        /\ Scored(7, 87, "low")
        /\ report.entity_info.name = "N/A"
        /\ report.entity_info.status = "N/A"
        /\ report.risk_level # "high"

\* A company run in which all twelve source calls were made and failed, with
\* the lowest jitter on every supplementary module.
C26_Witness ==
    /\ HasReport
    /\ validation.type = "cnpj"
    /\ \A s \in CnpjSources : calls[s] \in Failures
    /\ report.critical_issues = 1
    /\ report.overall_score = 71


\* ---------------------------------------------------------------------------
\* Two requests served by one event loop
\* ---------------------------------------------------------------------------

\* The locals of the request the event loop is running.
Active ==
    Frame(pc, request, net, validation, calls, results, cnpj_data, partial,
          modules_results, response, in_order)

\* A variant in which modules_results is one list shared by the requests: the
\* request that resumes goes on with the list the other one left.
ResumeOnSharedList(own, other) == other

\* modules_results of the request that resumes: the list its own call of
\* perform_cnpj_analysis or perform_cpf_analysis created, whatever the other
\* request did to its own.
Resume(own, other) == own

\* The running request is suspended at its await (or has not been received,
\* or has been answered) and the event loop runs the other one.
Switch ==
    /\ suspended # NoRun
    /\ suspended # Active
    /\ pc' = suspended.pc
    /\ request' = suspended.request
    /\ net' = suspended.net
    /\ validation' = suspended.validation
    /\ calls' = suspended.calls
    /\ results' = suspended.results
    /\ cnpj_data' = suspended.cnpj_data
    /\ partial' = suspended.partial
    /\ modules_results' = Resume(suspended.modules_results, modules_results)
    /\ response' = suspended.response
    /\ in_order' = suspended.in_order
    /\ suspended' = Active

TwoRunInit ==
    /\ pc = "idle"
    /\ request = NoRequest
    /\ net = "up"
    /\ validation = NoValidation
    /\ calls = [s \in Sources |-> NotCalled]
    /\ results = [i \in 1..Len(RegistrySources) |-> Pending]
    /\ cnpj_data = NoData(<<>>)
    /\ partial = NoAnalysis
    /\ modules_results = <<>>
    /\ response = NoResponse
    /\ in_order = TRUE
    /\ suspended = IdleFrame

TwoRunNext ==
    \/ Next
    \/ Switch

SpecTwoRuns == TwoRunInit /\ [][TwoRunNext]_vars


\* The frame is that of a request answered with a report.
Finished(f) ==
    /\ f.pc = "done"
    /\ f.request.endpoint = "POST /analysis"
    /\ f.response.status = 200

\* The source-backed modules a run owes to its own identifier and to the
\* outcomes c of its own source calls, each analyzer applied to what its
\* own calls returned.
SourceBackedOf(type, document, c) ==
    IF type = "cnpj"
    THEN LET ibama == analyze_environmental_ibama(fetch_with_timeout(c["ibama"]))
             mte == analyze_labor_issues_mte(fetch_with_timeout(c["mte"]))
         IN
         <<CnpjCadastral(
               fetch_cnpj([i \in 1..Len(RegistrySources) |->
                              fetch_json(c[RegistrySources[i]])],
                          document).data,
               document),
           ModuleResult("sanctions",
               analyze_cnpj_sanctions_cnep(
                   analyze_cnpj_sanctions_ceis(fetch_with_timeout(c["ceis"])),
                   fetch_with_timeout(c["cnep"]))),
           ModuleResult("legal",
               analyze_cnpj_legal(fetch_with_timeout(c["jusbrasil"]))),
           ModuleResult("fiscal",
               analyze_fiscal_situation(fetch_with_timeout(c["rfb"]))),
           ModuleResult("media",
               analyze_media_mentions(fetch_with_timeout(c["newsapi"]))),
           ModuleResult("environmental",
               IF ibama.pending
               THEN analyze_environmental_alt(fetch_with_timeout(c["ibama_api"]))
               ELSE ibama.result),
           ModuleResult("labor",
               IF mte.pending
               THEN analyze_labor_issues_caged(fetch_with_timeout(c["caged"]))
               ELSE mte.result)>>
    ELSE <<CpfCadastral(c["cpf_rfb"], document),
           CpfSanctions(c["cpf_ceis"]),
           CpfCadin(c["cpf_cadin"]),
           CpfPep(c["cpf_pep"])>>

\* The entity_info a run owes to its own identifier and source outcomes.
EntityInfoOf(type, document, c) ==
    IF type = "cnpj"
    THEN CnpjEntityInfo(
             fetch_cnpj([i \in 1..Len(RegistrySources) |->
                            fetch_json(c[RegistrySources[i]])],
                        document).data,
             document)
    ELSE CpfEntityInfo(document)

\* The supplementary modules a run may append: those of its own roster, each
\* at its base score plus a jitter the run drew.
SupplementaryOwn(type, k, module) ==
    \E score_variation \in JitterMin..JitterMax :
        module = IF type = "cnpj"
                 THEN CnpjSupplementary(additional_modules[k], score_variation)
                 ELSE CpfSupplementary(additional_cpf_modules[k],
                                       score_variation)

\* The report in frame f holds the roster of its own kind of identifier, the
\* source-backed modules and the entity_info of its own identifier and calls,
\* its own supplementary modules, and the aggregates of these modules.
OwnReport(f) ==
    LET type == f.validation.type
        document == f.validation.document
        modules == f.response.analysis.modules
    IN  /\ Ids(modules) = Roster(type)
        /\ SubSeq(modules, 1, SourceBacked(type))
               = SourceBackedOf(type, document, f.calls)
        /\ \A k \in 1..(Len(modules) - SourceBacked(type)) :
               SupplementaryOwn(type, k, modules[SourceBacked(type) + k])
        /\ f.response.analysis.entity_info
               = EntityInfoOf(type, document, f.calls)
        /\ f.response.analysis
               = Report(modules, f.response.analysis.entity_info)

C21_WitnessTwoKinds ==
    /\ Finished(Active) /\ Finished(suspended)
    /\ validation.type = "cnpj" /\ suspended.validation.type = "cpf"


\* Both requests were answered with a report, for the same identifier, after
\* identical outcomes of every source call.
SameInputs ==
    /\ Finished(Active) /\ Finished(suspended)
    /\ validation.document = suspended.validation.document
    /\ calls = suspended.calls

\* What a module carries besides score, risk and findings.
Fixed(module) == [id |-> module.id, sources |-> module.sources]

====
